---- MODULE Spec2Model ----
(***************************************************************************)
(* example/assets/get_inputs.py: load an ONNX model file and list the      *)
(* name, shape and element type of every declared graph input.             *)
(*                                                                         *)
(* Standard output is a sequence of text tokens; the token "\n" ends a     *)
(* line.  Formatting is modelled by what Python and the protobuf binding   *)
(* write: an f-string field holds str() of the value, the repeated field   *)
(* shape.dim is written as a bracketed list of the text form of each       *)
(* dimension message (which ends in a line break when a field is set), and *)
(* the enum field elem_type is written as its integer code.                *)
(***************************************************************************)
EXTENDS Integers, Sequences, FiniteSets, TLC

\* Longest declared input list of the generated model files.
MaxInputs == 2
\* Number of invocations of the script against the same file.
MaxRuns == 2

VARIABLES
    file,          \* what the path ./models/lama_fp32.onnx names on disk
    run,           \* number of the current invocation
    pc,            \* statement the interpreter is at
    model,         \* the module-level name `model`
    idx,           \* position of the for-loop's iterator in model.graph.input
    input_tensor,  \* the loop variable `input_tensor`
    stdout,        \* text written to standard output by this invocation
    exc,           \* the exception that ended the invocation, "none" if none
    exitStatus,    \* process exit status, -1 while the script is running
    loads,         \* calls of onnx.load made by this invocation
    prevOut,       \* standard output of the previous invocation
    prevExit       \* exit status of the previous invocation

vars == <<file, run, pc, model, idx, input_tensor, stdout, exc, exitStatus,
          loads, prevOut, prevExit>>

----------------------------------------------------------------------------
\* Data: model files

Unbound == [bound |-> FALSE]
Bound(v) == [bound |-> TRUE, value |-> v]

DimValue(n) == [kind |-> "dim_value", dim_value |-> n]
DimParam(s) == [kind |-> "dim_param", dim_param |-> s]
DimUnset == [kind |-> "unset"]

\* TensorProto.DataType codes: FLOAT and INT64.
ElemTypes == {1, 7}

Names == {"input_0", "mask"}

Shapes == {<< >>,
           <<DimValue(1)>>,
           <<DimParam("N"), DimValue(3)>>,
           <<DimValue(1), DimUnset, DimValue(3)>>}

ValueInfo(n, d, t) ==
    [name |-> n,
     type |-> [tensor_type |-> [shape |-> [dim |-> d], elem_type |-> t]]]

Descriptors == {ValueInfo(n, d, t) : n \in Names, d \in Shapes, t \in ElemTypes}

SeqsUpTo(S, n) == UNION {[1..k -> S] : k \in 0..n}

ModelProto(inputs) == [graph |-> [input |-> inputs]]

\* The example model: inputs input_0 and mask, both float, of rank 4.
LamaModel ==
    ModelProto(<<ValueInfo("input_0",
                           <<DimValue(1), DimValue(3), DimValue(256), DimValue(256)>>, 1),
                 ValueInfo("mask",
                           <<DimValue(1), DimValue(1), DimValue(256), DimValue(256)>>, 1)>>)

Models == {ModelProto(s) : s \in SeqsUpTo(Descriptors, MaxInputs)} \cup {LamaModel}

\* What the hard-coded path names: nothing, a file the parser rejects, or a
\* serialized model.
Files == {[kind |-> "missing"], [kind |-> "malformed"]}
             \cup {[kind |-> "model", proto |-> m] : m \in Models}

----------------------------------------------------------------------------
\* Library calls and formatting

\* Mutant: a file the parser rejects is read as a model without inputs.
onnx_load_lenient(f) ==
    CASE f.kind = "missing" -> [raises |-> "FileNotFoundError"]
      [] f.kind = "malformed" -> [raises |-> "none", value |-> ModelProto(<< >>)]
      [] OTHER -> [raises |-> "none", value |-> f.proto]

onnx_load(f) ==
    CASE f.kind = "missing" -> [raises |-> "FileNotFoundError"]
      [] f.kind = "malformed" -> [raises |-> "DecodeError"]
      [] OTHER -> [raises |-> "none", value |-> f.proto]

\* str() of one TensorShapeProto.Dimension: protobuf text format.
ReprDim(d) ==
    CASE d.kind = "dim_value" -> <<"dim_value: ", ToString(d.dim_value), "\n">>
      [] d.kind = "dim_param" -> <<"dim_param: ", "\"" \o d.dim_param \o "\"", "\n">>
      [] OTHER -> << >>

RECURSIVE JoinDims(_)
JoinDims(dims) ==
    IF dims = << >> THEN << >>
    ELSE IF Len(dims) = 1 THEN ReprDim(dims[1])
    ELSE ReprDim(dims[1]) \o <<", ">> \o JoinDims(Tail(dims))

\* str() of the repeated field shape.dim.
ReprDims(dims) == <<"[">> \o JoinDims(dims) \o <<"]">>

\* Mutant: the element type is written by its enum name.
ReprElemType_asName(t) ==
    <<CASE t = 1 -> "FLOAT" [] t = 7 -> "INT64" [] OTHER -> "UNDEFINED">>

\* str() of the enum field elem_type: a Python int.
ReprElemType(t) == <<ToString(t)>>

HeaderText == <<"Model Inputs:">>
NameText(t) == <<"- Name: ", t.name>>
ShapeText(t) == <<"- Shape: ">> \o ReprDims(t.type.tensor_type.shape.dim)
TypeText(t) == <<"- Type: ">> \o ReprElemType(t.type.tensor_type.elem_type)

\* print(text): the text and a line break.
py_print(out, text) == out \o text \o <<"\n">>

----------------------------------------------------------------------------
\* The script

Final == {"done", "failed"}

Init ==
    /\ file \in Files
    /\ run = 1
    /\ pc = "load"
    /\ model = Unbound
    /\ idx = 0
    /\ input_tensor = Unbound
    /\ stdout = << >>
    /\ exc = "none"
    /\ exitStatus = -1
    /\ loads = 0
    /\ prevOut = << >>
    /\ prevExit = -1

\* Mutant: a failed load is caught and the script goes on with an empty model.
Load_swallow ==
    /\ pc = "load"
    /\ loads' = loads + 1
    /\ LET r == onnx_load(file) IN
         model' = Bound(IF r.raises = "none" THEN r.value ELSE ModelProto(<< >>))
    /\ pc' = "header"
    /\ UNCHANGED <<file, run, idx, input_tensor, stdout, exc, exitStatus,
                   prevOut, prevExit>>

\* Mutant: a failed load is tried once more before the failure is let through.
Load_retry ==
    /\ pc = "load"
    /\ loads' = loads + 1
    /\ LET r == onnx_load(file) IN
         IF r.raises = "none"
         THEN /\ model' = Bound(r.value)
              /\ pc' = "header"
              /\ UNCHANGED <<exc, exitStatus>>
         ELSE IF loads = 0
         THEN UNCHANGED <<pc, model, exc, exitStatus>>
         ELSE /\ exc' = r.raises
              /\ exitStatus' = 1
              /\ pc' = "failed"
              /\ UNCHANGED model
    /\ UNCHANGED <<file, run, idx, input_tensor, stdout, prevOut, prevExit>>

\* model = onnx.load("./models/lama_fp32.onnx"); an exception is not caught
\* anywhere and ends the process with status 1.
Load ==
    /\ pc = "load"
    /\ loads' = loads + 1
    /\ LET r == onnx_load(file) IN
         IF r.raises = "none"
         THEN /\ model' = Bound(r.value)
              /\ pc' = "header"
              /\ UNCHANGED <<exc, exitStatus>>
         ELSE /\ exc' = r.raises
              /\ exitStatus' = 1
              /\ pc' = "failed"
              /\ UNCHANGED model
    /\ UNCHANGED <<file, run, idx, input_tensor, stdout, prevOut, prevExit>>

\* Mutant: the header carries the number of the invocation.
PrintHeader_stamped ==
    /\ pc = "header"
    /\ stdout' = py_print(stdout, HeaderText \o <<ToString(run)>>)
    /\ pc' = "for"
    /\ UNCHANGED <<file, run, model, idx, input_tensor, exc, exitStatus, loads,
                   prevOut, prevExit>>

\* print("Model Inputs:")
PrintHeader ==
    /\ pc = "header"
    /\ stdout' = py_print(stdout, HeaderText)
    /\ pc' = "for"
    /\ UNCHANGED <<file, run, model, idx, input_tensor, exc, exitStatus, loads,
                   prevOut, prevExit>>

\* Mutant: the list is walked from its last entry to its first.
ForNext_reversed ==
    /\ pc = "for"
    /\ IF idx < Len(model.value.graph.input)
       THEN /\ input_tensor' =
                  Bound(model.value.graph.input[Len(model.value.graph.input) - idx])
            /\ idx' = idx + 1
            /\ pc' = "name"
            /\ UNCHANGED exitStatus
       ELSE /\ pc' = "done"
            /\ exitStatus' = 0
            /\ UNCHANGED <<input_tensor, idx>>
    /\ UNCHANGED <<file, run, model, stdout, exc, loads, prevOut, prevExit>>

\* Mutant: the loop takes each entry off the front of model.graph.input.
ForNext_consume ==
    /\ pc = "for"
    /\ IF model.value.graph.input # << >>
       THEN /\ input_tensor' = Bound(Head(model.value.graph.input))
            /\ model' = Bound(ModelProto(Tail(model.value.graph.input)))
            /\ idx' = idx + 1
            /\ pc' = "name"
            /\ UNCHANGED exitStatus
       ELSE /\ pc' = "done"
            /\ exitStatus' = 0
            /\ UNCHANGED <<input_tensor, idx, model>>
    /\ UNCHANGED <<file, run, stdout, exc, loads, prevOut, prevExit>>

\* Mutant: the loop never sees the end of the list.
ForNext_spin ==
    /\ pc = "for"
    /\ IF idx < Len(model.value.graph.input)
       THEN /\ input_tensor' = Bound(model.value.graph.input[idx + 1])
            /\ idx' = idx + 1
            /\ pc' = "name"
       ELSE UNCHANGED <<pc, input_tensor, idx>>
    /\ UNCHANGED <<file, run, model, stdout, exc, exitStatus, loads, prevOut,
                   prevExit>>

\* for input_tensor in model.graph.input: bind the next entry, or leave the
\* loop, which ends the script with status 0.
ForNext ==
    /\ pc = "for"
    /\ IF idx < Len(model.value.graph.input)
       THEN /\ input_tensor' = Bound(model.value.graph.input[idx + 1])
            /\ idx' = idx + 1
            /\ pc' = "name"
            /\ UNCHANGED exitStatus
       ELSE /\ pc' = "done"
            /\ exitStatus' = 0
            /\ UNCHANGED <<input_tensor, idx>>
    /\ UNCHANGED <<file, run, model, stdout, exc, loads, prevOut, prevExit>>

\* print(f"- Name: {input_tensor.name}")
PrintName ==
    /\ pc = "name"
    /\ stdout' = py_print(stdout, NameText(input_tensor.value))
    /\ pc' = "shape"
    /\ UNCHANGED <<file, run, model, idx, input_tensor, exc, exitStatus, loads,
                   prevOut, prevExit>>

\* Mutant: the shape is read from the first declared input.
PrintShape_first ==
    /\ pc = "shape"
    /\ stdout' = py_print(stdout, ShapeText(model.value.graph.input[1]))
    /\ pc' = "type"
    /\ UNCHANGED <<file, run, model, idx, input_tensor, exc, exitStatus, loads,
                   prevOut, prevExit>>

\* print(f"- Shape: {input_tensor.type.tensor_type.shape.dim}")
PrintShape ==
    /\ pc = "shape"
    /\ stdout' = py_print(stdout, ShapeText(input_tensor.value))
    /\ pc' = "type"
    /\ UNCHANGED <<file, run, model, idx, input_tensor, exc, exitStatus, loads,
                   prevOut, prevExit>>

\* Mutant: the header is printed inside the loop.
PrintType_reheader ==
    /\ pc = "type"
    /\ stdout' = py_print(stdout, TypeText(input_tensor.value))
    /\ pc' = "header"
    /\ UNCHANGED <<file, run, model, idx, input_tensor, exc, exitStatus, loads,
                   prevOut, prevExit>>

\* print(f"- Type: {input_tensor.type.tensor_type.elem_type}")
PrintType ==
    /\ pc = "type"
    /\ stdout' = py_print(stdout, TypeText(input_tensor.value))
    /\ pc' = "for"
    /\ UNCHANGED <<file, run, model, idx, input_tensor, exc, exitStatus, loads,
                   prevOut, prevExit>>

\* python3 get_inputs.py, again: a new process against the same file.
Invoke ==
    /\ pc \in Final
    /\ run < MaxRuns
    /\ run' = run + 1
    /\ prevOut' = stdout
    /\ prevExit' = exitStatus
    /\ pc' = "load"
    /\ model' = Unbound
    /\ idx' = 0
    /\ input_tensor' = Unbound
    /\ stdout' = << >>
    /\ exc' = "none"
    /\ exitStatus' = -1
    /\ loads' = 0
    /\ UNCHANGED file

\* One statement of the running script.
Step == Load \/ PrintHeader \/ ForNext \/ PrintName \/ PrintShape \/ PrintType

Next == Step \/ Invoke

Spec == Init /\ [][Next]_vars

\* The interpreter runs the script's statements one after another without
\* suspension; nothing obliges anyone to invoke the script again.
FairSpec == Spec /\ WF_vars(Step)

----------------------------------------------------------------------------
\* Reading standard output back

Count(s, tok) == Cardinality({i \in 1..Len(s) : s[i] = tok})

\* Number of lines of a text: every line ends in a line break.
NumLines(s) == Count(s, "\n")

Positions(s, tok) == {i \in 1..Len(s) : s[i] = tok}

\* The tensor blocks of an output: each starts at a "- Name: " label and runs
\* to the next one, or to the end.
Blocks(out) ==
    LET P == Positions(out, "- Name: ")
        n == Cardinality(P)
        Nth(k) == CHOOSE i \in P : Cardinality({j \in P : j < i}) = k - 1
        End(k) == IF k = n THEN Len(out) ELSE Nth(k + 1) - 1
    IN  [k \in 1..n |-> SubSeq(out, Nth(k), End(k))]

\* What precedes the first tensor block.
Preamble(out) ==
    LET P == Positions(out, "- Name: ")
    IN  IF P = {} THEN out
        ELSE SubSeq(out, 1, (CHOOSE i \in P : \A j \in P : i <= j) - 1)

\* A label stands at the start of a line of the block.
StartsLine(b, i) == i = 1 \/ b[i - 1] = "\n"

\* The block is three print records, labelled Name, Shape, Type in that order.
ThreeRecords(b) ==
    /\ Count(b, "- Name: ") = 1
    /\ Count(b, "- Shape: ") = 1
    /\ Count(b, "- Type: ") = 1
    /\ LET ps == CHOOSE i \in Positions(b, "- Shape: ") : TRUE
           pt == CHOOSE i \in Positions(b, "- Type: ") : TRUE
       IN  /\ b[1] = "- Name: "
           /\ 1 < ps /\ ps < pt
           /\ StartsLine(b, ps) /\ StartsLine(b, pt)
           /\ b[Len(b)] = "\n"

\* The text of each record of a block, label and closing line break removed.
NameField(b) ==
    SubSeq(b, 2, (CHOOSE i \in Positions(b, "- Shape: ") : TRUE) - 2)
ShapeField(b) ==
    SubSeq(b, (CHOOSE i \in Positions(b, "- Shape: ") : TRUE) + 1,
              (CHOOSE i \in Positions(b, "- Type: ") : TRUE) - 2)
TypeField(b) ==
    SubSeq(b, (CHOOSE i \in Positions(b, "- Type: ") : TRUE) + 1, Len(b) - 1)

\* All three records of the block carry the fields of descriptor t.
CarriesFieldsOf(b, t) ==
    /\ NameField(b) = <<t.name>>
    /\ ShapeField(b) = ReprDims(t.type.tensor_type.shape.dim)
    /\ TypeField(b) = <<ToString(t.type.tensor_type.elem_type)>>

\* The dimension values a block shows, in the order shown.
RECURSIVE ShownDimValues(_)
ShownDimValues(b) ==
    IF Len(b) < 2 THEN << >>
    ELSE IF b[1] = "dim_value: " THEN <<b[2]>> \o ShownDimValues(Tail(Tail(b)))
    ELSE ShownDimValues(Tail(b))

Contains(s, tok) == \E i \in 1..Len(s) : s[i] = tok

\* Dimensions whose text form is not empty.
SetDims(dims) == Cardinality({i \in 1..Len(dims) : dims[i].kind # "unset"})

Inputs == model.value.graph.input

LamaFile == [kind |-> "model", proto |-> LamaModel]

----------------------------------------------------------------------------
\* Properties

\* C1: a successful run writes exactly one tensor block per entry of
\* model.graph.input, and the k-th block is that of the k-th entry: while the
\* loop runs the blocks begun so far are those of the first entries, in order,
\* and at the end there are n blocks, block k carrying the fields of entry k.
C1_BlocksInDeclarationOrder ==
    model.bound =>
        LET B == Blocks(stdout) IN
        /\ Len(B) = (IF pc = "name" THEN idx - 1 ELSE idx)
        /\ idx <= Len(Inputs)
        /\ \A k \in 1..Len(B) : B[k][2] = Inputs[k].name
        /\ pc = "done" =>
             /\ Len(B) = Len(Inputs)
             /\ \A k \in 1..Len(B) : CarriesFieldsOf(B[k], Inputs[k])

\* A finished run over two different descriptors.
C1_Witness ==
    /\ pc = "done"
    /\ Len(Inputs) = 2
    /\ Inputs[1] # Inputs[2]
    /\ Len(Blocks(stdout)) = 2

\* C2 as claimed: for the model with inputs input_0 (1,3,256,256) and mask
\* (1,1,256,256), both 32-bit float, each of the two blocks shows the name,
\* the dimensions and the type string FLOAT32.
C2_TypeStringFLOAT32 ==
    (file = LamaFile /\ pc = "done") =>
        LET B == Blocks(stdout) IN
        /\ Len(B) = 2
        /\ Contains(B[1], "input_0") /\ Contains(B[2], "mask")
        /\ ShownDimValues(B[1]) = <<"1", "3", "256", "256">>
        /\ ShownDimValues(B[2]) = <<"1", "1", "256", "256">>
        /\ Contains(B[1], "FLOAT32") /\ Contains(B[2], "FLOAT32")

\* C2 as amended: for that model each of the two blocks shows the name, the
\* dimensions and, as its type, the integer code 1 of the element type; no
\* type string is written anywhere.
C2_TypeCode ==
    (file = LamaFile /\ pc = "done") =>
        LET B == Blocks(stdout) IN
        /\ Len(B) = 2
        /\ Contains(B[1], "input_0") /\ Contains(B[2], "mask")
        /\ ShownDimValues(B[1]) = <<"1", "3", "256", "256">>
        /\ ShownDimValues(B[2]) = <<"1", "1", "256", "256">>
        /\ TypeField(B[1]) = <<"1">> /\ TypeField(B[2]) = <<"1">>
        /\ ~Contains(stdout, "FLOAT32") /\ ~Contains(stdout, "FLOAT")

\* The run over the example model has finished.
C2_Witness == file = LamaFile /\ pc = "done" /\ NumLines(stdout) > 1

\* C3: when the path names no file, the run can only be at the load or have
\* failed there with the file-not-found failure, and in every such state
\* standard output is empty.
C3_MissingFileNoOutput ==
    file.kind = "missing" =>
        /\ pc \in {"load", "failed"}
        /\ stdout = << >>
        /\ ~Contains(prevOut, "Model Inputs:")
        /\ pc = "failed" => exc = "FileNotFoundError"

\* The load of a missing file has failed.
C3_Witness == file.kind = "missing" /\ pc = "failed" /\ loads = 1

C5_FailurePropagates ==
    /\ pc = "failed" =>
         /\ exc = onnx_load(file).raises
         /\ exc # "none"
         /\ loads = 1
         /\ exitStatus \notin {0, -1}
    /\ pc # "failed" => exc = "none"
    /\ onnx_load(file).raises # "none" => pc \in {"load", "failed"}

\* A second invocation has failed as well.
C5_Witness == pc = "failed" /\ run = 2 /\ exitStatus = 1

C7_NoSideEffects ==
    [][/\ file' = file
       /\ (model.bound /\ run' = run) => model' = model]_vars

\* The loop has passed over a loaded model with two inputs.
C7_Witness == pc = "done" /\ model.bound /\ idx = 2 /\ model.value = file.proto

\* C8 as claimed: every block is exactly three lines, Name, Shape, Type in
\* that order, all three carrying the fields of one descriptor.
C8_ThreeLines ==
    pc = "done" =>
        LET B == Blocks(stdout) IN
        \A k \in 1..Len(B) :
            /\ ThreeRecords(B[k])
            /\ NumLines(B[k]) = 3
            /\ \E j \in 1..Len(Inputs) : CarriesFieldsOf(B[k], Inputs[j])

\* C8 as amended: every block is exactly three print records, Name, Shape,
\* Type in that order, each starting a line, all three carrying the fields of
\* one descriptor; the Shape record runs over one more line for each
\* dimension that has a value or a symbolic name, so a block has three lines
\* plus one for each such dimension.
C8_ThreeRecords ==
    pc = "done" =>
        LET B == Blocks(stdout) IN
        \A k \in 1..Len(B) :
            /\ ThreeRecords(B[k])
            /\ \E j \in 1..Len(Inputs) :
                 /\ CarriesFieldsOf(B[k], Inputs[j])
                 /\ NumLines(B[k]) = 3 + SetDims(Inputs[j].type.tensor_type.shape.dim)

\* A finished run that printed a descriptor with a fixed dimension after one
\* of another shape.
C8_Witness ==
    /\ pc = "done"
    /\ Len(Inputs) = 2
    /\ Inputs[1].type.tensor_type.shape.dim = << >>
    /\ SetDims(Inputs[2].type.tensor_type.shape.dim) > 0
    /\ NumLines(Blocks(stdout)[2]) > 3

\* C9: the file is read once, and before anything is written; the header is
\* written once, as the first line, before every block; for a model without
\* inputs the whole output is the header line.
C9_StepOrder ==
    /\ loads <= 1
    /\ pc # "load" => loads = 1
    /\ stdout # << >> => (loads = 1 /\ model.bound)
    /\ Count(stdout, "Model Inputs:") = (IF pc \in {"load", "header", "failed"} THEN 0 ELSE 1)
    /\ stdout # << >> => Preamble(stdout) = <<"Model Inputs:", "\n">>
    /\ (pc = "done" /\ Inputs = << >>) => stdout = <<"Model Inputs:", "\n">>

\* A finished run over a model without inputs.
C9_Witness == pc = "done" /\ model.bound /\ Inputs = << >> /\ NumLines(stdout) = 1

\* C10: every run reaches a final state; success comes after one pass over
\* the whole list with all n blocks written, failure with the failure of the
\* load; and a run in its final state writes nothing more.
C10_Terminates ==
    /\ [](pc \notin Final => <>(pc \in Final))
    /\ [](pc = "done" => (idx = Len(Inputs) /\ Len(Blocks(stdout)) = Len(Inputs)))
    /\ [](pc = "failed" => (exc # "none" /\ idx = 0))
    /\ [][(pc \in Final /\ run' = run) => stdout' = stdout]_vars

\* The last run has ended, having passed over a list of two inputs.
C10_Witness == pc \in Final /\ run = 2 /\ idx = 2 /\ exitStatus = 0

====
